---- MODULE Spec2Model ----
(***************************************************************************)
(* State machine of ckanext/shift/action.py: the two actions shift_submit  *)
(* and shift_hook, the task_status store, the job queue and the resources  *)
(* they read.  A request advances by one atomic step per access to the     *)
(* store, the queue or a resource, so that two requests interleave exactly *)
(* where two web workers can.                                              *)
(*                                                                         *)
(* Calls are those that pass validation and the access check (lines 52-59  *)
(* and 162-168); time is a counter of abstract ticks, and the staleness    *)
(* window (3600 s by default, line 98) is a number of ticks.               *)
(***************************************************************************)
EXTENDS Integers, Sequences, FiniteSets, TLC

\* ---------------------------------------------------------------- bounds
MaxTime == 2
AssumeTaskStaleAfter == 1
MaxJobs == 2
MaxCalls == 3
MaxRaceCalls == 2
NPlugins == 2

\* "r1" is a resource of the site, "r2" an id that resolves to none
ResourceIds == {"r1", "r2"}
Existing == {"r1"}
Procs == {1, 2}
SeqProcs == {1}
Urls == {"a", "b"}
NoUrl == ""
Statuses == {"complete", "error", "running", "pending"}
Plugins == 1..NPlugins

\* ------------------------------------------------------- dates as strings
\* A date string is absent (None or ''), unparseable, or denotes an instant,
\* with or without a UTC offset.
NoDate == [k |-> "none", t |-> 0]
BadDate == [k |-> "bad", t |-> 0]
Naive(t) == [k |-> "naive", t |-> t]
Aware(t) == [k |-> "aware", t |-> t]

\* str(datetime.datetime.utcnow()): a naive timestamp string
StrUtcNow(t) == Naive(t)

\* dateutil.parser.parse raises ValueError on a string that is no date
ParseFails(d) == d.k \notin {"naive", "aware"}

\* comparing an offset-naive with an offset-aware datetime raises TypeError
Incomparable(a, b) == a.k # b.k

\* python truthiness of dict.get(...) on a string field
Truthy(d) == d.k # "none"

VARIABLES now, resources, task_status, queue, calls, ncalls

vars == <<now, resources, task_status, queue, calls, ncalls>>

\* ------------------------------------------------------------ task store
EmptyValue == 0
NoId == 0

\* task_status_show: the stored records of the resource under
\* task_type 'shift' / key 'shift' (NotFound when there is none)
TaskStatusShow(res_id) ==
    {i \in 1..Len(task_status) : task_status[i].entity_id = res_id}

\* a store that inserts every dict that comes without 'id'
TaskStatusUpdateAlwaysInserts(task) ==
    IF task.id # NoId
    THEN [task_status EXCEPT ![task.id] = task]
    ELSE Append(task_status, [task EXCEPT !.id = Len(task_status) + 1])

\* task_status_update: a dict with 'id' replaces the record of that id; a
\* dict without 'id' replaces the record stored under the same
\* (entity_id, task_type, key) when there is one and is inserted under a
\* fresh id otherwise (the store's lookup-or-create)
TaskStatusUpdate(task) ==
    IF task.id # NoId
    THEN [task_status EXCEPT ![task.id] = task]
    ELSE IF TaskStatusShow(task.entity_id) # {}
         THEN LET i == CHOOSE i \in TaskStatusShow(task.entity_id) : TRUE
              IN [task_status EXCEPT ![i] = [task EXCEPT !.id = i]]
         ELSE Append(task_status, [task EXCEPT !.id = Len(task_status) + 1])

\* the local task dict of shift_submit, lines 81-90
NewTask(res_id, t) ==
    [id |-> NoId, entity_id |-> res_id, state |-> "submitting",
     value |-> EmptyValue, error |-> "{}", last_updated |-> t]

NoTask == [id |-> NoId, entity_id |-> "", state |-> "", value |-> EmptyValue,
           error |-> "{}", last_updated |-> 0]

NoResource == [last_modified |-> NoDate, url |-> NoUrl]
NoMetadata == [resource_id |-> "", task_created |-> NoDate, original_url |-> NoUrl]

IdleCall ==
    [pc |-> "idle", op |-> "none", res_id |-> "", nested |-> FALSE,
     resource_dict |-> NoResource, task |-> NoTask, status |-> "",
     metadata |-> NoMetadata, resubmit |-> FALSE, result |-> "none",
     why |-> "none", job |-> 0, hjob |-> 0,
     \* history of the call, read by the properties only: the store and the
     \* queue length when the action was entered, what it did since
     pre |-> <<>>, preJobs |-> 0, elapsed |-> -1, consulted |-> 0,
     after_upload |-> [i \in Plugins |-> 0], views |-> 0, entered |-> 0,
     answers |-> [i \in Plugins |-> TRUE], submit_result |-> "none"]

Init ==
    /\ now = 0
    /\ resources = [r \in ResourceIds |->
                      [exists |-> r \in Existing, last_modified |-> NoDate,
                       url |-> IF r \in Existing THEN "a" ELSE NoUrl]]
    /\ task_status = <<>>
    /\ queue = <<>>
    /\ calls = [p \in Procs |-> IdleCall]
    /\ ncalls = 0

AllIdle == \A p \in Procs : calls[p].pc = "idle"

\* ----------------------------------------------------------- environment
Tick ==
    /\ now < MaxTime
    /\ now' = now + 1
    /\ UNCHANGED <<resources, task_status, queue, calls, ncalls>>

\* history of the jobs, read by the properties only: the resource of a job
\* still under way has been modified since the job was enqueued
Modified(r) ==
    [j \in 1..Len(queue) |->
       IF queue[j].metadata.resource_id = r /\ ~queue[j].reported
       THEN [queue[j] EXCEPT !.modified_since = TRUE]
       ELSE queue[j]]

\* the host's resource_update / resource_patch: a new upload stamps
\* last_modified, a link change replaces the url
ResourceUpdate(r) ==
    /\ resources[r].exists
    /\ \E lm \in {NoDate, BadDate, Naive(now)}, u \in Urls \cup {NoUrl} :
         /\ <<lm, u>> # <<resources[r].last_modified, resources[r].url>>
         /\ resources' = [resources EXCEPT ![r].last_modified = lm, ![r].url = u]
    /\ queue' = Modified(r)
    /\ UNCHANGED <<now, task_status, calls, ncalls>>

ResourceDelete(r) ==
    /\ resources[r].exists
    /\ resources' = [resources EXCEPT ![r] = [exists |-> FALSE,
                                              last_modified |-> NoDate,
                                              url |-> NoUrl]]
    /\ UNCHANGED <<now, task_status, queue, calls, ncalls>>

\* ------------------------------------------------------------ shift_submit
\* How a submit ends: as the outermost call, or back in the shift_hook that
\* re-entered it (whose own return value is None and which drops the result).
Finish(c, result, why) ==
    [c EXCEPT !.pc = "done", !.result = IF c.nested THEN "None" ELSE result,
              !.submit_result = result, !.why = why]

StartSubmit(p) ==
    /\ calls[p].pc = "idle"
    /\ ncalls < MaxCalls
    /\ ncalls' = ncalls + 1
    /\ \E r \in ResourceIds :
         calls' = [calls EXCEPT ![p] =
                     [IdleCall EXCEPT !.pc = "resource_show", !.op = "submit",
                                      !.res_id = r, !.pre = task_status,
                                      !.preJobs = Len(queue)]]
    /\ UNCHANGED <<now, resources, task_status, queue>>

\* resource_show's NotFound is not caught
SubmitResourceShowRaises(p) ==
    LET c == calls[p] IN
    /\ c.pc = "resource_show"
    /\ calls' = [calls EXCEPT ![p] =
          IF resources[c.res_id].exists
          THEN [c EXCEPT !.pc = "can_upload",
                         !.resource_dict.url = resources[c.res_id].url]
          ELSE [c EXCEPT !.pc = "done", !.result = "NotFound",
                         !.submit_result = "NotFound",
                         !.why = "resource_not_found"]]
    /\ UNCHANGED <<now, resources, task_status, queue, ncalls>>

\* lines 61-66; of the resource dict only 'url' is read later (line 131)
SubmitResourceShow(p) ==
    LET c == calls[p] IN
    /\ c.pc = "resource_show"
    /\ calls' = [calls EXCEPT ![p] =
          IF resources[c.res_id].exists
          THEN [c EXCEPT !.pc = "can_upload",
                         !.resource_dict.url = resources[c.res_id].url]
          ELSE Finish(c, "False", "resource_not_found")]
    /\ UNCHANGED <<now, resources, task_status, queue, ncalls>>

\* only a unanimous refusal rejects
RejectedByAll(answers) == \A i \in Plugins : ~answers[i]

\* lines 73-79: the plugin loop stops at the first plugin that answers false
Rejected(answers) == \E i \in Plugins : ~answers[i]

FirstRejecting(answers) ==
    IF Rejected(answers)
    THEN CHOOSE i \in Plugins : ~answers[i] /\ \A j \in 1..(i-1) : answers[j]
    ELSE NPlugins

\* lines 73-90
SubmitCanUpload(p) ==
    LET c == calls[p] IN
    /\ c.pc = "can_upload"
    /\ \E answers \in [Plugins -> BOOLEAN] :
         calls' = [calls EXCEPT ![p] =
            IF Rejected(answers)
            THEN [Finish(c, "False", "plugin_rejected")
                     EXCEPT !.consulted = FirstRejecting(answers),
                            !.answers = answers]
            ELSE [c EXCEPT !.pc = "task_status_show",
                           !.consulted = FirstRejecting(answers),
                           !.answers = answers,
                           !.task = NewTask(c.res_id, now)]]
    /\ UNCHANGED <<now, resources, task_status, queue, ncalls>>

\* a task exactly as old as the window counts as stale
IsStaleAtWindow(elapsed) == elapsed >= AssumeTaskStaleAfter

\* line 103
IsStale(elapsed) == elapsed > AssumeTaskStaleAfter

\* a pending task blocks whatever its age
IsDuplicateForever(existing, t) == existing.state = "pending"

\* a task still "submitting" counts as in flight as well
IsDuplicateWhileSubmitting(existing, t) ==
    /\ existing.state \in {"pending", "submitting"}
    /\ ~IsStale(t - existing.last_updated)

\* lines 99-112: a pending task that is not stale makes this call a duplicate
IsDuplicate(existing, t) ==
    /\ existing.state = "pending"
    /\ ~IsStale(t - existing.last_updated)

\* lines 91-116
SubmitTaskStatusShow(p) ==
    LET c == calls[p] IN
    /\ c.pc = "task_status_show"
    /\ IF TaskStatusShow(c.res_id) = {}
       THEN calls' = [calls EXCEPT ![p].pc = "update_submitting"]
       ELSE \E i \in TaskStatusShow(c.res_id) :
              LET existing == task_status[i] IN
              calls' = [calls EXCEPT ![p] =
                 IF IsDuplicate(existing, now)
                 THEN [Finish(c, "False", "duplicate")
                          EXCEPT !.elapsed = now - existing.last_updated]
                 ELSE [c EXCEPT !.pc = "update_submitting",
                                !.task.id = existing.id,
                                !.elapsed = IF existing.state = "pending"
                                            THEN now - existing.last_updated
                                            ELSE -1]]
    /\ UNCHANGED <<now, resources, task_status, queue, ncalls>>

\* lines 118-119; the dict the store returns is dropped, so the local task
\* carries an id only when line 114 set it
SubmitUpdateSubmitting(p) ==
    LET c == calls[p] IN
    /\ c.pc = "update_submitting"
    /\ task_status' = TaskStatusUpdate(c.task)
    /\ calls' = [calls EXCEPT ![p].pc = "enqueue_job"]
    /\ UNCHANGED <<now, resources, queue, ncalls>>

\* the job carries the start of the clock in place of the time of the call
JobDataCreatedAtStart(c) ==
    [resource_id |-> c.res_id,
     task_created |-> StrUtcNow(0),
     original_url |-> c.resource_dict.url]

\* lines 121-133
JobData(c) ==
    [resource_id |-> c.res_id,
     task_created |-> StrUtcNow(c.task.last_updated),
     original_url |-> c.resource_dict.url]

\* An exception leaves the action, and the shift_hook around it when nested.
Raise(c, exc, why) == [c EXCEPT !.pc = "done", !.result = exc, !.why = why]

SubmitRaise(c, exc, why) == [Raise(c, exc, why) EXCEPT !.submit_result = exc]

\* the task is read once more before the job is handed over, and the call
\* gives up when another call has made it pending meanwhile
SubmitEnqueueJobRechecks(p) ==
    LET c == calls[p] IN
    /\ c.pc = "enqueue_job"
    /\ IF \E i \in TaskStatusShow(c.res_id) : IsDuplicate(task_status[i], now)
       THEN /\ calls' = [calls EXCEPT ![p] = Finish(c, "False", "duplicate")]
            /\ UNCHANGED queue
       ELSE \/ /\ Len(queue) < MaxJobs
               /\ queue' = Append(queue, [id |-> Len(queue) + 1,
                                          metadata |-> JobData(c),
                                          reported |-> FALSE,
                                          modified_since |-> FALSE])
               /\ calls' = [calls EXCEPT ![p].pc = "update_pending",
                                         ![p].job = Len(queue) + 1]
            \/ /\ calls' = [calls EXCEPT ![p] =
                              SubmitRaise(c, "UnboundLocalError", "enqueue_failed")]
               /\ UNCHANGED queue
    /\ UNCHANGED <<now, resources, task_status, ncalls>>

\* the handler of lines 136-138 records the failure in the task
SubmitEnqueueJobMarksError(p) ==
    LET c == calls[p] IN
    /\ c.pc = "enqueue_job"
    /\ \/ /\ Len(queue) < MaxJobs
          /\ queue' = Append(queue, [id |-> Len(queue) + 1, metadata |-> JobData(c),
                                     reported |-> FALSE,
                                     modified_since |-> FALSE])
          /\ calls' = [calls EXCEPT ![p].pc = "update_pending",
                                    ![p].job = Len(queue) + 1]
          /\ UNCHANGED task_status
       \/ /\ task_status' = TaskStatusUpdate([c.task EXCEPT !.state = "error"])
          /\ calls' = [calls EXCEPT ![p] =
                         SubmitRaise(c, "UnboundLocalError", "enqueue_failed")]
          /\ UNCHANGED queue
    /\ UNCHANGED <<now, resources, ncalls>>

\* lines 134-141: the queue takes the job, or enqueue_job raises; the handler
\* at 136-138 binds no job, so line 140 raises UnboundLocalError
SubmitEnqueueJob(p) ==
    LET c == calls[p] IN
    /\ c.pc = "enqueue_job"
    /\ \/ /\ Len(queue) < MaxJobs
          /\ queue' = Append(queue, [id |-> Len(queue) + 1, metadata |-> JobData(c),
                                     reported |-> FALSE,
                                     modified_since |-> FALSE])
          /\ calls' = [calls EXCEPT ![p].pc = "update_pending",
                                    ![p].job = Len(queue) + 1]
       \/ /\ calls' = [calls EXCEPT ![p] =
                         SubmitRaise(c, "UnboundLocalError", "enqueue_failed")]
          /\ UNCHANGED queue
    /\ UNCHANGED <<now, resources, task_status, ncalls>>

\* the state is left at "submitting"
PendingTaskKeepsState(task, job_id, t) ==
    [task EXCEPT !.value = job_id, !.last_updated = t]

\* lines 140-145: json.dumps({'job_id': job.id, ...}) is the job's reference
PendingTask(task, job_id, t) ==
    [task EXCEPT !.value = job_id, !.state = "pending", !.last_updated = t]

\* lines 140-148
SubmitUpdatePending(p) ==
    LET c == calls[p] IN
    /\ c.pc = "update_pending"
    /\ task_status' = TaskStatusUpdate(PendingTask(c.task, c.job, now))
    /\ calls' = [calls EXCEPT ![p] =
                   Finish([c EXCEPT !.task = PendingTask(c.task, c.job, now)],
                          "True", "submitted")]
    /\ UNCHANGED <<now, resources, queue, ncalls>>

\* -------------------------------------------------------------- shift_hook
Terminal(status) == status \in {"complete", "error"}

\* What a caller other than a worker of this queue may send: the values no
\* job of the queue carries (a missing, an unparseable or an offset-aware
\* task_created), read by the code only when the status is "complete".
CallerMetadata(status) ==
    IF status = "complete"
    THEN [resource_id : Existing, task_created : {NoDate, BadDate, Aware(now)},
          original_url : Urls \cup {NoUrl}]
         \cup {[NoMetadata EXCEPT !.resource_id = r] : r \in ResourceIds \ Existing}
    ELSE {[NoMetadata EXCEPT !.resource_id = r] : r \in ResourceIds}

\* lines 162-168: the callback of job j (the worker echoes the job's
\* metadata), or, with j = 0, a call by anybody else
StartHook(p) ==
    /\ calls[p].pc = "idle"
    /\ ncalls < MaxCalls
    /\ ncalls' = ncalls + 1
    /\ \E j \in 0..Len(queue), status \in Statuses :
         \E md \in IF j = 0 THEN CallerMetadata(status) ELSE {queue[j].metadata} :
           /\ j > 0 => ~queue[j].reported
           /\ calls' = [calls EXCEPT ![p] =
                 [IdleCall EXCEPT !.pc = "hook_task_status_show", !.op = "hook",
                                  !.res_id = md.resource_id, !.metadata = md,
                                  !.status = status, !.hjob = j,
                                  !.pre = task_status, !.preJobs = Len(queue)]]
           /\ queue' = IF j > 0 /\ Terminal(status)
                       THEN [queue EXCEPT ![j].reported = TRUE]
                       ELSE queue
    /\ UNCHANGED <<now, resources, task_status>>

\* a missing task is made up instead of reported
HookTaskStatusShowOrCreate(p) ==
    LET c == calls[p] IN
    /\ c.pc = "hook_task_status_show"
    /\ \E t \in IF TaskStatusShow(c.res_id) = {}
                THEN {NewTask(c.res_id, now)}
                ELSE {task_status[i] : i \in TaskStatusShow(c.res_id)} :
         calls' = [calls EXCEPT ![p] =
            [c EXCEPT !.task = [t EXCEPT !.state = c.status, !.last_updated = now],
                      !.pc = IF c.status = "complete"
                             THEN "hook_complete" ELSE "hook_update"]]
    /\ UNCHANGED <<now, resources, task_status, queue, ncalls>>

\* the hook writes a fresh task dict under the found id, as lines 81-90 build
\* it, in place of the loaded one
HookTaskStatusShowResetsValue(p) ==
    LET c == calls[p] IN
    /\ c.pc = "hook_task_status_show"
    /\ IF TaskStatusShow(c.res_id) = {}
       THEN calls' = [calls EXCEPT ![p] = Raise(c, "NotFound", "task_not_found")]
       ELSE \E i \in TaskStatusShow(c.res_id) :
              calls' = [calls EXCEPT ![p] =
                 [c EXCEPT !.task = [NewTask(c.res_id, now)
                                        EXCEPT !.id = task_status[i].id,
                                               !.state = c.status],
                           !.pc = IF c.status = "complete"
                                  THEN "hook_complete" ELSE "hook_update"]]
    /\ UNCHANGED <<now, resources, task_status, queue, ncalls>>

\* lines 170-181
HookTaskStatusShow(p) ==
    LET c == calls[p] IN
    /\ c.pc = "hook_task_status_show"
    /\ IF TaskStatusShow(c.res_id) = {}
       THEN calls' = [calls EXCEPT ![p] = Raise(c, "NotFound", "task_not_found")]
       ELSE \E i \in TaskStatusShow(c.res_id) :
              calls' = [calls EXCEPT ![p] =
                 [c EXCEPT !.task = [task_status[i] EXCEPT !.state = c.status,
                                                          !.last_updated = now],
                           !.pc = IF c.status = "complete"
                                  THEN "hook_complete" ELSE "hook_update"]]
    /\ UNCHANGED <<now, resources, task_status, queue, ncalls>>

\* the loop stops after the first plugin
NotifiedFirstOnly(counts) ==
    [i \in Plugins |-> IF i = 1 THEN counts[i] + 1 ELSE counts[i]]

\* lines 190-191: every registered plugin is notified
Notified(counts) == [i \in Plugins |-> counts[i] + 1]

\* an upload in the very instant of the task's creation counts as newer
IsNewerOrSame(last_modified, task_created) == last_modified >= task_created

\* line 208
IsNewer(last_modified, task_created) == last_modified > task_created

\* lines 215-217
UrlChanged(url, original_url) ==
    url # NoUrl /\ original_url # NoUrl /\ url # original_url

\* 'if' in place of line 215's 'elif': the urls are compared as well when
\* the timestamps did not ask for a resubmission
ResubmitDecisionBothChecks(resource_dict, metadata) ==
    LET byUrl == IF UrlChanged(resource_dict.url, metadata.original_url)
                 THEN "yes" ELSE "no" IN
    IF Truthy(resource_dict.last_modified) /\ Truthy(metadata.task_created)
    THEN IF ParseFails(resource_dict.last_modified)
              \/ ParseFails(metadata.task_created)
         THEN byUrl
         ELSE IF Incomparable(resource_dict.last_modified, metadata.task_created)
              THEN "TypeError"
              ELSE IF IsNewer(resource_dict.last_modified.t, metadata.task_created.t)
                   THEN "yes" ELSE byUrl
    ELSE byUrl

\* lines 201-220: "yes", "no", or the TypeError of an unorderable pair
ResubmitDecision(resource_dict, metadata) ==
    IF Truthy(resource_dict.last_modified) /\ Truthy(metadata.task_created)
    THEN IF ParseFails(resource_dict.last_modified)
              \/ ParseFails(metadata.task_created)
         THEN "no"
         ELSE IF Incomparable(resource_dict.last_modified, metadata.task_created)
              THEN "TypeError"
              ELSE IF IsNewer(resource_dict.last_modified.t, metadata.task_created.t)
                   THEN "yes" ELSE "no"
    ELSE IF UrlChanged(resource_dict.url, metadata.original_url)
         THEN "yes" ELSE "no"

\* lines 181-220: resource_show and package_show, the plugins' after_upload,
\* the default views and the resubmission decision; between the read of the
\* resource and the decision nothing of the task store or the queue is
\* touched, so they are one step
HookComplete(p) ==
    LET c == calls[p]
        rd == [last_modified |-> resources[c.res_id].last_modified,
               url |-> resources[c.res_id].url]
        d == ResubmitDecision(rd, c.metadata)
        v == [c EXCEPT !.resource_dict = rd,
                       !.after_upload = Notified(c.after_upload),
                       !.views = c.views + 1]
    IN
    /\ c.pc = "hook_complete"
    /\ calls' = [calls EXCEPT ![p] =
          IF ~resources[c.res_id].exists
          THEN Raise(c, "NotFound", "resource_not_found")
          ELSE IF d = "TypeError"
               THEN Raise(v, "TypeError", "unorderable_dates")
               ELSE [v EXCEPT !.pc = "hook_update", !.resubmit = (d = "yes")]]
    /\ UNCHANGED <<now, resources, task_status, queue, ncalls>>

\* shift_submit is re-entered first, the task written only when there is no
\* resubmission
HookUpdateSkipsWriteOnResubmit(p) ==
    LET c == calls[p] IN
    /\ c.pc = "hook_update"
    /\ task_status' = IF c.resubmit THEN task_status ELSE TaskStatusUpdate(c.task)
    /\ calls' = [calls EXCEPT ![p] =
          IF c.resubmit
          THEN [c EXCEPT !.pc = "resource_show", !.nested = TRUE,
                         !.entered = c.entered + 1,
                         !.resource_dict = NoResource, !.metadata = NoMetadata,
                         !.pre = task_status,
                         !.preJobs = Len(queue)]
          ELSE [c EXCEPT !.pc = "done", !.result = "None", !.why = "hook_done"]]
    /\ UNCHANGED <<now, resources, queue, ncalls>>

\* lines 222-229; the re-entered shift_submit runs in this request
HookUpdate(p) ==
    LET c == calls[p] IN
    /\ c.pc = "hook_update"
    /\ task_status' = TaskStatusUpdate(c.task)
    /\ calls' = [calls EXCEPT ![p] =
          IF c.resubmit
          THEN [c EXCEPT !.pc = "resource_show", !.nested = TRUE,
                         !.entered = c.entered + 1,
                         !.resource_dict = NoResource, !.metadata = NoMetadata,
                         !.pre = TaskStatusUpdate(c.task),
                         !.preJobs = Len(queue)]
          ELSE [c EXCEPT !.pc = "done", !.result = "None", !.why = "hook_done"]]
    /\ UNCHANGED <<now, resources, queue, ncalls>>

\* the request is answered; the worker process takes the next one
Return(p) ==
    /\ calls[p].pc = "done"
    /\ calls' = [calls EXCEPT ![p] = IdleCall]
    /\ UNCHANGED <<now, resources, task_status, queue, ncalls>>

Step(p) ==
    \/ SubmitResourceShow(p)
    \/ SubmitCanUpload(p)
    \/ SubmitTaskStatusShow(p)
    \/ SubmitUpdateSubmitting(p)
    \/ SubmitEnqueueJob(p)
    \/ SubmitUpdatePending(p)
    \/ HookTaskStatusShow(p)
    \/ HookComplete(p)
    \/ HookUpdate(p)
    \/ Return(p)

\* a second web worker takes a request only while the first is busy
Free(p) == \A q \in Procs : q < p => calls[q].pc # "idle"

\* requests of several web workers, interleaved at every host call; the
\* host's resource actions run between them
Next ==
    \/ \E p \in Procs : Free(p) /\ ncalls < MaxRaceCalls /\ StartSubmit(p)
    \/ \E p \in Procs : Free(p) /\ ncalls < MaxRaceCalls /\ StartHook(p)
    \/ \E p \in Procs : Step(p)
    \/ Tick
    \/ \E r \in ResourceIds : AllIdle /\ ResourceUpdate(r)
    \/ \E r \in ResourceIds : AllIdle /\ ResourceDelete(r)

Spec == Init /\ [][Next]_vars

\* one request at a time: a call, of these two actions or of the host's
\* resource actions, starts only when no other is under way; time passes
SeqNext ==
    \/ \E p \in SeqProcs : AllIdle /\ StartSubmit(p)
    \/ \E p \in SeqProcs : AllIdle /\ StartHook(p)
    \/ \E p \in SeqProcs : Step(p)
    \/ Tick
    \/ \E r \in ResourceIds : AllIdle /\ ResourceUpdate(r)
    \/ \E r \in ResourceIds : AllIdle /\ ResourceDelete(r)

SeqSpec == Init /\ [][SeqNext]_vars

\* no pending task is about to outlive the staleness window (lines 99-103)
PendingStaysFresh ==
    \A i \in 1..Len(task_status) :
      task_status[i].state = "pending"
      => (now + 1) - task_status[i].last_updated <= AssumeTaskStaleAfter

\* one request at a time, every shift_hook being the callback of a worker
\* for a job of the queue, and the workers answering in time: the clock
\* does not advance past the staleness window of a pending task
WorkerNext ==
    \/ \E p \in SeqProcs : AllIdle /\ StartSubmit(p)
    \/ \E p \in SeqProcs : AllIdle /\ StartHook(p) /\ calls'[p].hjob > 0
    \/ \E p \in SeqProcs : Step(p)
    \/ PendingStaysFresh /\ Tick
    \/ \E r \in ResourceIds : AllIdle /\ ResourceUpdate(r)
    \/ \E r \in ResourceIds : AllIdle /\ ResourceDelete(r)

WorkerSpec == Init /\ [][WorkerNext]_vars

\* ===================================================================
\* Properties
\* ===================================================================
\* the records of resource r in a store
TasksOf(store, r) == {i \in 1..Len(store) : store[i].entity_id = r}

\* a finished shift_submit, called directly or re-entered from shift_hook
SubmitDone(c) == c.pc = "done" /\ (c.op = "submit" \/ c.nested)

\* no registered plugin refused
NoVeto(c) == \A i \in Plugins : c.answers[i]

\* the pending task the call found in the store when it was entered
PendingBefore(c) ==
    /\ TasksOf(c.pre, c.res_id) # {}
    /\ \A i \in TasksOf(c.pre, c.res_id) : c.pre[i].state = "pending"

\* C1: a shift_submit for an existing resource without a task record, that no
\* plugin vetoes and whose job the queue accepts, returns True, has enqueued
\* exactly one job (for that resource) and leaves exactly one task record of
\* the resource, in state "pending" and carrying that job's reference.
C1_SubmitCreatesOnePendingTask ==
    \A p \in Procs :
      LET c == calls[p] IN
      (/\ SubmitDone(c)
       /\ resources[c.res_id].exists
       /\ TasksOf(c.pre, c.res_id) = {}
       /\ NoVeto(c)
       /\ c.why # "enqueue_failed")
      => /\ c.result = "True"
         /\ Len(queue) = c.preJobs + 1
         /\ queue[Len(queue)].metadata.resource_id = c.res_id
         /\ Cardinality(TaskStatusShow(c.res_id)) = 1
         /\ \A i \in TaskStatusShow(c.res_id) :
              /\ task_status[i].state = "pending"
              /\ task_status[i].value = queue[Len(queue)].id

C1_Witness ==
    \E p \in Procs :
      LET c == calls[p] IN
      /\ SubmitDone(c) /\ c.result = "True"
      /\ TasksOf(c.pre, c.res_id) = {}
      /\ Cardinality(TaskStatusShow(c.res_id)) = 1

\* C2: a shift_submit that finds the resource's task "pending" and no older
\* than the staleness window returns False, enqueues nothing and leaves the
\* store as it was.
C2_FreshPendingBlocks ==
    \A p \in Procs :
      LET c == calls[p] IN
      (/\ SubmitDone(c)
       /\ PendingBefore(c)
       /\ \A i \in TasksOf(c.pre, c.res_id) :
            now - c.pre[i].last_updated <= AssumeTaskStaleAfter)
      => /\ c.submit_result = "False"
         /\ Len(queue) = c.preJobs
         /\ task_status = c.pre

\* the duplicate check itself decided, at the very edge of the window
C2_Witness ==
    \E p \in Procs :
      LET c == calls[p] IN
      /\ SubmitDone(c) /\ PendingBefore(c)
      /\ c.why = "duplicate"
      /\ c.elapsed = AssumeTaskStaleAfter
      /\ now - c.elapsed = c.pre[CHOOSE i \in TasksOf(c.pre, c.res_id) : TRUE].last_updated

\* C3: a shift_submit that finds the resource's task "pending" and older than
\* the staleness window (line 102's difference exceeds it) is not skipped
\* as a duplicate; when the queue accepts its job it returns True, has
\* enqueued one new job, and the record it found is the resource's only
\* record still, under the same id, "pending" with the new job's reference.
C3_StalePendingIsRestarted ==
    \A p \in Procs :
      LET c == calls[p] IN
      (/\ SubmitDone(c)
       /\ PendingBefore(c)
       /\ c.elapsed > AssumeTaskStaleAfter)
      => /\ c.why \in {"submitted", "enqueue_failed"}
         /\ c.why = "submitted" =>
              /\ c.submit_result = "True"
              /\ Len(queue) = c.preJobs + 1
              /\ queue[Len(queue)].metadata.resource_id = c.res_id
              /\ Len(task_status) = Len(c.pre)
              /\ TaskStatusShow(c.res_id) = TasksOf(c.pre, c.res_id)
              /\ Cardinality(TaskStatusShow(c.res_id)) = 1
              /\ \A i \in TaskStatusShow(c.res_id) :
                   /\ task_status[i].id = c.pre[i].id
                   /\ task_status[i].state = "pending"
                   /\ task_status[i].value = queue[Len(queue)].id
                   /\ task_status[i].value # c.pre[i].value

C3_Witness ==
    \E p \in Procs :
      LET c == calls[p] IN
      /\ SubmitDone(c) /\ PendingBefore(c)
      /\ c.elapsed > AssumeTaskStaleAfter
      /\ c.result = "True"

\* C4: when a registered plugin's can_upload answers false for an existing
\* resource, shift_submit returns False, enqueues nothing and leaves the
\* store as it was, whatever the other plugins answer and whatever task the
\* resource has.
C4_VetoBlocks ==
    \A p \in Procs :
      LET c == calls[p] IN
      (SubmitDone(c) /\ ~NoVeto(c))
      => /\ c.submit_result = "False"
         /\ Len(queue) = c.preJobs
         /\ task_status = c.pre

\* one plugin agrees, a later one refuses, and a stale pending task is there
C4_Witness ==
    \E p \in Procs :
      LET c == calls[p] IN
      /\ SubmitDone(c)
      /\ c.answers[1] /\ ~c.answers[NPlugins]
      /\ PendingBefore(c)
      /\ \A i \in TasksOf(c.pre, c.res_id) :
           now - c.pre[i].last_updated > AssumeTaskStaleAfter

\* C5: a shift_hook for a resource_id without a task record raises NotFound
\* and does nothing else: the store is as it was, no plugin was notified, no
\* default views were created, shift_submit was not entered and no job was
\* enqueued.
C5_HookWithoutTaskFails ==
    \A p \in Procs :
      LET c == calls[p] IN
      (/\ c.pc = "done" /\ c.op = "hook" /\ ~c.nested
       /\ TasksOf(c.pre, c.res_id) = {})
      => /\ c.result = "NotFound"
         /\ task_status = c.pre
         /\ Len(queue) = c.preJobs
         /\ \A i \in Plugins : c.after_upload[i] = 0
         /\ c.views = 0
         /\ c.entered = 0

\* status "complete" for an existing resource that has no task
C5_Witness ==
    \E p \in Procs :
      LET c == calls[p] IN
      /\ c.pc = "done" /\ c.op = "hook" /\ c.status = "complete"
      /\ resources[c.res_id].exists
      /\ TasksOf(c.pre, c.res_id) = {}
      /\ c.result = "NotFound"

\* a "complete" shift_hook that found its task and its resource
CompleteHook(c) ==
    /\ c.op = "hook" /\ c.status = "complete"
    /\ c.nested \/ TasksOf(c.pre, c.res_id) # {}
    /\ resources[c.res_id].exists

\* C6: a "complete" shift_hook on a resource with a task calls after_upload
\* exactly once on every registered plugin and creates the default views
\* exactly once, whether or not it then resubmits; no call does either twice.
C6_CompleteNotifiesOnce ==
    \A p \in Procs :
      LET c == calls[p] IN
      /\ c.views <= 1
      /\ \A i \in Plugins : c.after_upload[i] <= 1
      /\ (c.pc = "done" /\ CompleteHook(c))
         => /\ c.views = 1
            /\ \A i \in Plugins : c.after_upload[i] = 1

\* a hook that went on to resubmit
C6_Witness ==
    \E p \in Procs :
      LET c == calls[p] IN
      /\ c.pc = "done" /\ CompleteHook(c)
      /\ c.entered = 1 /\ c.why = "submitted"
      /\ \A i \in Plugins : c.after_upload[i] = 1

\* the resubmission decision has been taken and its inputs are still the
\* call's locals
DecisionTaken(c) ==
    /\ c.op = "hook" /\ c.status = "complete" /\ ~c.nested
    /\ c.views = 1
    /\ c.pc \in {"hook_update", "done"}

TimestampPair(c) ==
    c.resource_dict.last_modified.k # "none" /\ c.metadata.task_created.k # "none"

BothParse(c) ==
    /\ c.resource_dict.last_modified.k \in {"naive", "aware"}
    /\ c.metadata.task_created.k \in {"naive", "aware"}

\* the two instants can be ordered and last_modified is the later one
StrictlyLater(c) ==
    /\ c.resource_dict.last_modified.k = c.metadata.task_created.k
    /\ c.resource_dict.last_modified.t > c.metadata.task_created.t

NotLater(c) ==
    /\ c.resource_dict.last_modified.k = c.metadata.task_created.k
    /\ c.resource_dict.last_modified.t <= c.metadata.task_created.t

\* the call's task is what the store holds for the resource
Persisted(c) ==
    /\ TaskStatusShow(c.res_id) # {}
    /\ \A i \in TaskStatusShow(c.res_id) : task_status[i] = c.task

C8_UrlCheckOnlyWithoutTimestamps ==
    \A p \in Procs :
      LET c == calls[p] IN
      DecisionTaken(c)
      => /\ ~TimestampPair(c)
            => (c.resubmit <=> /\ c.resource_dict.url # NoUrl
                               /\ c.metadata.original_url # NoUrl
                               /\ c.resource_dict.url # c.metadata.original_url)
         /\ (TimestampPair(c) /\ ~(BothParse(c) /\ StrictlyLater(c)))
            => ~c.resubmit

\* both timestamps present, last_modified not later, the url changed
C8_Witness ==
    \E p \in Procs :
      LET c == calls[p] IN
      /\ DecisionTaken(c) /\ TimestampPair(c) /\ BothParse(c) /\ NotLater(c)
      /\ c.resource_dict.url # NoUrl /\ c.metadata.original_url # NoUrl
      /\ c.resource_dict.url # c.metadata.original_url
      /\ c.pc = "done" /\ ~c.resubmit

\* the re-entered shift_submit has not yet read the task
BeforeDuplicateCheck(c) ==
    c.nested /\ c.pc \in {"resource_show", "can_upload", "task_status_show"}

\* C9: when a "complete" shift_hook resubmits, the store holds its task in
\* state "complete" from the moment shift_submit is re-entered until the
\* duplicate check reads it; so, no plugin refusing, the re-entered
\* shift_submit is never skipped as a duplicate, and when the queue accepts
\* its job it returns True with one new job enqueued and the task "pending"
\* with that job's reference.
C9_PersistedBeforeResubmit ==
    \A p \in Procs :
      LET c == calls[p] IN
      /\ BeforeDuplicateCheck(c)
         => /\ TaskStatusShow(c.res_id) # {}
            /\ \A i \in TaskStatusShow(c.res_id) : task_status[i].state = "complete"
      /\ (c.nested /\ c.pc = "done" /\ NoVeto(c))
         => /\ c.why \in {"submitted", "enqueue_failed"}
            /\ c.why = "submitted"
               => /\ c.submit_result = "True"
                  /\ Len(queue) = c.preJobs + 1
                  /\ \A i \in TaskStatusShow(c.res_id) :
                       /\ task_status[i].state = "pending"
                       /\ task_status[i].value = queue[Len(queue)].id

C9_Witness ==
    \E p \in Procs :
      LET c == calls[p] IN
      /\ c.nested /\ c.pc = "done" /\ c.why = "submitted"
      /\ c.submit_result = "True"
      /\ \A i \in TaskStatusShow(c.res_id) : task_status[i].state = "pending"

\* C10: the task is read once, at lines 92-112; a shift_submit that has
\* passed that read goes on to its "submitting" write, its enqueue and its
\* "pending" write whatever another call writes meanwhile, and is never
\* turned away as a duplicate.  Two interleaved calls that both read before
\* either wrote "pending" therefore both enqueue (C10_Witness).
C10_NothingStopsACallPastTheCheck ==
    [][\A p \in Procs :
         (/\ calls[p].pc \in {"update_submitting", "enqueue_job", "update_pending"}
          /\ calls'[p] # calls[p])
         => /\ calls'[p].why # "duplicate"
            /\ calls[p].pc = "update_submitting" => calls'[p].pc = "enqueue_job"
            /\ calls[p].pc = "enqueue_job"
               => \/ calls'[p].pc = "update_pending" /\ Len(queue') = Len(queue) + 1
                  \/ calls'[p].why = "enqueue_failed"
            /\ calls[p].pc = "update_pending" => calls'[p].submit_result = "True"]_vars

\* two calls for one resource, neither of which saw a pending task, have
\* both returned True, and their two jobs are in the queue, both created
\* within the staleness window
C10_Witness ==
    \E p, q \in Procs :
      /\ p # q
      /\ calls[p].pc = "done" /\ calls[q].pc = "done"
      /\ calls[p].op = "submit" /\ calls[q].op = "submit"
      /\ calls[p].res_id = calls[q].res_id
      /\ calls[p].result = "True" /\ calls[q].result = "True"
      /\ calls[p].elapsed = -1 /\ calls[q].elapsed = -1
      /\ calls[p].job # calls[q].job
      /\ \A j \in {calls[p].job, calls[q].job} :
           /\ queue[j].metadata.resource_id = calls[p].res_id
           /\ now - queue[j].metadata.task_created.t <= AssumeTaskStaleAfter

\* C11: when enqueue_job raises inside shift_submit, the call does not return
\* True (it ends in an exception), no job is enqueued, and the resource's one
\* task record is left as line 119 wrote it: state "submitting" with the
\* empty job reference, neither "pending" nor "error".
C11_EnqueueFailureLeavesSubmitting ==
    \A p \in Procs :
      LET c == calls[p] IN
      (SubmitDone(c) /\ c.why = "enqueue_failed")
      => /\ c.submit_result \notin {"True", "False"}
         /\ c.result = "UnboundLocalError"
         /\ Len(queue) = c.preJobs
         /\ Cardinality(TaskStatusShow(c.res_id)) = 1
         /\ \A i \in TaskStatusShow(c.res_id) :
              /\ task_status[i].state = "submitting"
              /\ task_status[i].value = EmptyValue
              /\ task_status[i].error = "{}"

\* the failed call had found a pending task with a job reference, which
\* its "submitting" write replaced
C11_Witness ==
    \E p \in Procs :
      LET c == calls[p] IN
      /\ SubmitDone(c) /\ c.why = "enqueue_failed"
      /\ PendingBefore(c)
      /\ \A i \in TasksOf(c.pre, c.res_id) : c.pre[i].value # EmptyValue
      /\ \A i \in TaskStatusShow(c.res_id) :
           task_status[i].state = "submitting" /\ task_status[i].value = EmptyValue

\* C12: a shift_submit for a resource id that resolves to no resource (an
\* unknown id, or a resource deleted since) returns False without raising,
\* has asked no plugin, and leaves the task store and the queue as they were.
C12_UnknownResourceReturnsFalse ==
    \A p \in Procs :
      LET c == calls[p] IN
      (SubmitDone(c) /\ ~resources[c.res_id].exists)
      => /\ c.submit_result = "False"
         /\ ~c.nested => c.result = "False"
         /\ c.why = "resource_not_found"
         /\ c.consulted = 0
         /\ task_status = c.pre
         /\ Len(queue) = c.preJobs

\* the resource was deleted while its task was pending
C12_Witness ==
    \E p \in Procs :
      LET c == calls[p] IN
      /\ SubmitDone(c) /\ ~c.nested /\ c.res_id \in Existing
      /\ ~resources[c.res_id].exists
      /\ PendingBefore(c)
      /\ c.result = "False" /\ c.consulted = 0

\* the jobs enqueued for resource r whose worker has not reported "complete"
\* or "error" through shift_hook
InFlight(r) ==
    {j \in 1..Len(queue) : queue[j].metadata.resource_id = r /\ ~queue[j].reported}

\* C13: with calls one at a time, hooks sent by the workers only and no
\* pending task outliving the staleness window, a resource never has more
\* than one enqueued job whose worker has not yet reported a terminal
\* status, intermediate status reports included.
C13_AtMostOneInFlight ==
    \A r \in ResourceIds : Cardinality(InFlight(r)) <= 1

\* C14: with calls one after the other there is at most one task record per
\* resource.  A record is added only by a shift_submit whose lookup found
\* none, and then exactly one; a call that found a record carries its id in
\* the dict it writes; shift_hook adds none; no record changes its id or
\* its resource.
C14_OneTaskPerResource ==
    /\ \A r \in ResourceIds : Cardinality(TaskStatusShow(r)) <= 1
    /\ \A i \in 1..Len(task_status) : task_status[i].id = i
    /\ \A p \in Procs :
         LET c == calls[p] IN
         c.pc # "idle"
         => /\ Len(task_status) >= Len(c.pre)
            /\ Len(task_status) > Len(c.pre)
               => /\ c.op = "submit" \/ c.nested
                  /\ TasksOf(c.pre, c.res_id) = {}
                  /\ Len(task_status) = Len(c.pre) + 1
            /\ \A i \in 1..Len(c.pre) :
                 /\ task_status[i].id = c.pre[i].id
                 /\ task_status[i].entity_id = c.pre[i].entity_id
            /\ c.task.id # NoId => c.task.id \in TaskStatusShow(c.res_id)
            /\ (c.pc \in {"update_submitting", "enqueue_job", "update_pending"}
                /\ TasksOf(c.pre, c.res_id) # {})
               => c.task.id \in TasksOf(c.pre, c.res_id)

\* the third call in a row for one resource has written its task, found by
\* lookup, and the resource has one record
C14_Witness ==
    \E p \in Procs :
      LET c == calls[p] IN
      /\ ncalls = MaxCalls
      /\ SubmitDone(c) /\ c.why = "submitted"
      /\ TasksOf(c.pre, c.res_id) # {}
      /\ c.task.id \in TasksOf(c.pre, c.res_id)
      /\ Cardinality(TaskStatusShow(c.res_id)) = 1

\* C15: a shift_hook with a status other than "complete", on a resource with
\* a task, returns normally having changed of the store only that task's
\* state (to the status) and last_updated (to the time of the call); id,
\* value and error are as before, every other record is untouched, no plugin
\* was notified, no default views were created, shift_submit was not entered
\* and no job was enqueued.
C15_OtherStatusOnlyStateAndTime ==
    \A p \in Procs :
      LET c == calls[p] IN
      (/\ c.pc = "done" /\ c.op = "hook" /\ c.status # "complete"
       /\ TasksOf(c.pre, c.res_id) # {})
      => /\ c.result = "None"
         /\ ~c.nested /\ c.entered = 0 /\ ~c.resubmit
         /\ c.views = 0
         /\ \A i \in Plugins : c.after_upload[i] = 0
         /\ Len(queue) = c.preJobs
         /\ Len(task_status) = Len(c.pre)
         /\ c.task.last_updated <= now
         /\ \A i \in 1..Len(c.pre) :
              /\ c.pre[i].last_updated <= c.task.last_updated
              /\ task_status[i] =
                   IF i \in TasksOf(c.pre, c.res_id)
                   THEN [c.pre[i] EXCEPT !.state = c.status,
                                         !.last_updated = c.task.last_updated]
                   ELSE c.pre[i]

\* an intermediate status on a pending task: the job reference stays, the
\* timestamp moves
C15_Witness ==
    \E p \in Procs :
      LET c == calls[p] IN
      /\ c.pc = "done" /\ c.op = "hook" /\ c.status = "running"
      /\ PendingBefore(c)
      /\ \A i \in TasksOf(c.pre, c.res_id) :
           /\ c.pre[i].value # EmptyValue
           /\ task_status[i].value = c.pre[i].value
           /\ task_status[i].state = "running"
           /\ task_status[i].last_updated > c.pre[i].last_updated

\* C16: with calls interleaved in any way, every stored task in state
\* "pending" carries the reference of a job that was enqueued; no shift_hook
\* arriving between a shift_submit's "submitting" write and its "pending"
\* write leaves a "pending" task with the empty value.
C16_PendingHasJobReference ==
    \A i \in 1..Len(task_status) :
      task_status[i].state = "pending"
      => /\ task_status[i].value # EmptyValue
         /\ task_status[i].value \in 1..Len(queue)

\* the jobs enqueued for resource r, and the most recent of them
JobsOf(r) == {j \in 1..Len(queue) : queue[j].metadata.resource_id = r}

LatestJob(r) == CHOOSE j \in JobsOf(r) : \A k \in JobsOf(r) : k <= j

AllFinished == \A p \in Procs : calls[p].pc \in {"idle", "done"}

\* C17: with calls interleaved in any way, once every call has finished (a
\* shift_submit that enqueued a job has then returned True), the task of a
\* resource with jobs carries the reference of the most recently enqueued
\* one: no shift_hook writes an older reference back over it.
C17_LatestJobReferenceStored ==
    AllFinished
    => \A r \in ResourceIds :
         JobsOf(r) # {}
         => /\ TaskStatusShow(r) # {}
            /\ \A i \in TaskStatusShow(r) : task_status[i].value = LatestJob(r)

\* C18: every shift_hook re-enters shift_submit at most once, and the
\* "complete" hook of a job whose resource has not been modified since the
\* job's shift_submit does not resubmit: the resource's url is the job's
\* original_url and its last_modified, when it is a date, is not later than
\* the job's task_created.  So the loop of resubmissions ends once the
\* resource stops changing.
C18_ResubmissionStops ==
    \A p \in Procs :
      LET c == calls[p] IN
      /\ c.entered <= 1
      /\ (DecisionTaken(c) /\ c.hjob > 0 /\ ~queue[c.hjob].modified_since)
         => /\ ~c.resubmit
            /\ c.resource_dict.url = c.metadata.original_url
            /\ c.metadata.task_created.k = "naive"
            /\ c.resource_dict.last_modified.k = "naive"
               => c.resource_dict.last_modified.t <= c.metadata.task_created.t
            /\ c.pc = "done" => c.result = "None" /\ c.entered = 0

\* job 1's hook has resubmitted (job 2 is its resubmission), and the
\* "complete" hook of job 2, the resource unchanged since, ends the loop; the
\* resource carries the date of the upload that caused the resubmission
C18_Witness ==
    \E p \in Procs :
      LET c == calls[p] IN
      /\ ncalls = 3 /\ Len(queue) = 2
      /\ queue[1].reported /\ queue[1].modified_since
      /\ c.op = "hook" /\ c.hjob = 2 /\ c.status = "complete"
      /\ ~queue[2].modified_since
      /\ c.resource_dict.last_modified.k = "naive"
      /\ c.pc = "done" /\ c.result = "None" /\ c.entered = 0

\* the task the call found in the store was in a state other than "pending"
NotPendingBefore(c) ==
    /\ TasksOf(c.pre, c.res_id) # {}
    /\ \A i \in TasksOf(c.pre, c.res_id) : c.pre[i].state # "pending"

\* C19: shift_submit is skipped as a duplicate only on a task that is
\* "pending" and no older than the staleness window.  On a task in any other
\* state ("submitting" left by a failed enqueue, "error", "complete", an
\* intermediate status), whatever its age, a call for an existing resource
\* that no plugin vetoes does not return False: it goes on to enqueue, and
\* returns True when the queue accepts the job.
C19_OnlyFreshPendingBlocks ==
    \A p \in Procs :
      LET c == calls[p] IN
      /\ (SubmitDone(c) /\ c.why = "duplicate")
         => /\ PendingBefore(c)
            /\ c.elapsed \in 0..AssumeTaskStaleAfter
      /\ (/\ SubmitDone(c)
          /\ resources[c.res_id].exists
          /\ NoVeto(c)
          /\ NotPendingBefore(c))
         => /\ c.submit_result # "False"
            /\ c.why \in {"submitted", "enqueue_failed"}
            /\ c.why = "submitted"
               => c.submit_result = "True" /\ Len(queue) = c.preJobs + 1

\* a resubmission in the very tick in which the enqueue had failed
C19_Witness ==
    \E p \in Procs :
      LET c == calls[p] IN
      /\ SubmitDone(c) /\ ~c.nested
      /\ \A i \in TasksOf(c.pre, c.res_id) :
           /\ c.pre[i].state = "submitting"
           /\ c.pre[i].last_updated = now
      /\ TasksOf(c.pre, c.res_id) # {}
      /\ c.result = "True"

====
